---- MODULE Spec2Model ----
(***************************************************************************)
(* State-machine model of the clock core of CarlKCarlK/clock-wifi:         *)
(*   - ClockTime   (src/src/clock_time.rs)  offset arithmetic              *)
(*   - ClockNotice (src/src/clock.rs)        message protocol and apply    *)
(*   - device_loop (src/src/clock.rs)        the perpetual Clock task      *)
(*   - ClockState  (src/src/clock_state.rs)  execute / render              *)
(* Durations are tick counts (embassy_time::Duration).  Two                *)
(* specifications are given: Spec is the whole system (driver loop,        *)
(* mailbox, Clock task); SpecTime hands arbitrary ClockNotice values to    *)
(* ClockNotice::apply, as any user of the Clock handle could.              *)
(***************************************************************************)
EXTENDS Integers, Sequences, FiniteSets, TLC

VARIABLES
    state,        \* main.rs: `state` of the driver loop (a ClockState)
    pc,           \* the await at which the driver loop is suspended
    event,        \* value the driver's last select/await resolved to
    mailbox,      \* ClockOuterNotifier: the Channel's queued ClockNotice values
    clock_time,   \* device_loop: `clock_time` (offset ticks, utc_offset_minutes)
    clock_state,  \* device_loop: `clock_state`
    blinker,      \* last (blink_mode, text) passed to blinker.write_text
    deadline,     \* instant at which the pending Timer::after(sleep_duration) fires
    instant,      \* Instant::now().as_ticks(), the monotonic hardware clock
    panicked,     \* a panic happened (panic_probe halts the device)
    last,         \* the notice handed to apply at the current instant, if any
    before,       \* the ClockTime that notice was applied to
    synced,       \* unix time of a set_from_unix at the current instant that no
                  \* change of the offset but UTC-offset adjustments has
                  \* followed, else NoSync
    sent,         \* history: every notice whose send completed, in order
    applied       \* history: every notice handed to ClockNotice::apply, in order

vars == <<state, pc, event, mailbox, clock_time, clock_state, blinker,
          deadline, instant, panicked, last, before, synced, sent, applied>>

(***************************************************************************)
(* Bounds of the model.                                                    *)
(***************************************************************************)
\* Messages the driver sends before the model stops it.
MaxSent == 6
\* Notices SpecTime hands to ClockNotice::apply.
MaxApplied == 4

\* Monotonic instants (ticks since boot) at which the tasks are observed.
Instants == {0, 1500, 60000, 43200250}
\* Unix timestamps handed to set_from_unix in SpecTime.
UnixTimes == {5025, 1700000000}
\* Unix timestamps a time-sync success carries in Spec (network time).
SyncTimes == {1700000000}
\* Values the build may inject as UTC_OFFSET_MINUTES.
DefaultUtcOffsets == {-420, 0, 330, 840}
\* Arguments of AdjustClockTime (Clock::adjust_offset).
Deltas == {43170000, 108000000}
\* Arguments of AdjustUtcOffsetHours.
HourSteps == {-1, 1}

(***************************************************************************)
(* Program constants.                                                      *)
(***************************************************************************)
\* embassy_time tick rate.  The RP2040 build runs at 1 MHz; the model uses
\* the 1 kHz configuration so that a day of ticks fits TLC's 32-bit
\* integers.  All tick arithmetic below is parametric in TICK_HZ.
TICK_HZ == 1000
CAPACITY == 4
SECONDS_IN_ONE_DAY == 86400
ONE_SECOND == TICK_HZ
ONE_MINUTE == 60 * TICK_HZ
ONE_HOUR == 3600 * TICK_HZ
TICKS_IN_ONE_DAY == SECONDS_IN_ONE_DAY * TICK_HZ
\* Units handed to till_next: the two render uses, the hour of its doc
\* example, a day, one tick, and 7 ticks, which divides none of the others.
Units == {1, 7, ONE_SECOND, ONE_MINUTE, ONE_HOUR, TICKS_IN_ONE_DAY}

HoursMinutes == "HoursMinutes"
MinutesSeconds == "MinutesSeconds"
EditUtcOffset == "EditUtcOffset"
ClockStates == {HoursMinutes, MinutesSeconds, EditUtcOffset}

(***************************************************************************)
(* Rust integer arithmetic.                                                *)
(***************************************************************************)
\* `%` on signed integers: the remainder has the sign of the dividend.
RustRem(a, b) == IF a >= 0 THEN a % b ELSE -((-a) % b)
\* `/` on signed integers truncates toward zero.
RustDiv(a, b) == IF a >= 0 THEN a \div b ELSE -((-a) \div b)

\* 2^64 mod m, what a wrapped u64 value contributes after `% m`, computed
\* in steps small enough for 32-bit integers (16 * m < 2^31).
Times16(x, m) == (16 * x) % m
Times2To16(x, m) == Times16(Times16(Times16(Times16(x, m), m), m), m)
TwoTo64Mod(m) == Times2To16(Times2To16(Times2To16(Times2To16(1 % m, m), m), m), m)

RECURSIVE Gcd(_, _)
Gcd(a, b) == IF b = 0 THEN a ELSE Gcd(b, a % b)
GCD_1K == Gcd(TICK_HZ, 1000)

(***************************************************************************)
(* embassy_time::Duration conversions.                                     *)
(***************************************************************************)
from_millis(millis) == (millis * (TICK_HZ \div GCD_1K)) \div (1000 \div GCD_1K)
from_secs(secs) == secs * TICK_HZ
as_secs(ticks) == ticks \div TICK_HZ

(***************************************************************************)
(* ClockNotice values.                                                     *)
(***************************************************************************)
Notice(k, s, u, d, h) == [kind |-> k, state |-> s, unix |-> u, delta |-> d, hours |-> h]
\* (variant: the notice does not carry the state)
SetState_loses_state(s) == Notice("SetState", HoursMinutes, 0, 0, 0)
SetState(s) == Notice("SetState", s, 0, 0, 0)
SetTimeFromUnix(u) == Notice("SetTimeFromUnix", HoursMinutes, u, 0, 0)
AdjustClockTime(d) == Notice("AdjustClockTime", HoursMinutes, 0, d, 0)
ResetSeconds == Notice("ResetSeconds", HoursMinutes, 0, 0, 0)
AdjustUtcOffsetHours(h) == Notice("AdjustUtcOffsetHours", HoursMinutes, 0, 0, h)
NoNotice == Notice("None", HoursMinutes, 0, 0, 0)
\* no set_from_unix to compare now() with
NoSync == -1

(***************************************************************************)
(* ClockTime.  An operation yields the set of outcomes the build can       *)
(* produce: [panic, ct].                                                   *)
(***************************************************************************)
ClockTime(o, u) == [offset |-> o, utc_offset_minutes |-> u]
Ok(ct) == [panic |-> FALSE, ct |-> ct]
Panic(ct) == [panic |-> TRUE, ct |-> ct]

\* impl Default for ClockTime
default(utc) == ClockTime(from_millis(12 * 3600 * 1000), utc)

\* (variant: the sum is not reduced modulo one day)
now_unreduced(ct, inst) == (inst % TICKS_IN_ONE_DAY) + (ct.offset % TICKS_IN_ONE_DAY)
\* ClockTime::now
now(ct, inst) == ((inst % TICKS_IN_ONE_DAY) + (ct.offset % TICKS_IN_ONE_DAY)) % TICKS_IN_ONE_DAY

\* (variant: a time on a boundary gets zero instead of a full unit)
till_next_zero_on_boundary(time, unit) == (unit - (time % unit)) % unit
\* ClockTime::till_next
till_next(time, unit) == unit - (time % unit)

\* offset = target - instant (mod 1 day), the tail of set_from_unix
offset_for(target_ticks, inst) ==
    LET current_instant_ticks == inst % TICKS_IN_ONE_DAY
        offset_ticks == IF target_ticks >= current_instant_ticks
                        THEN target_ticks - current_instant_ticks
                        ELSE TICKS_IN_ONE_DAY + target_ticks - current_instant_ticks
    IN  offset_ticks % TICKS_IN_ONE_DAY

\* ClockTime::set_from_unix.  A negative remainder cast `as u64` is
\* 2^64 + r; the multiplication by 1000 then overflows: a build with
\* overflow checks panics, a build without them wraps.
set_from_unix(ct, unix_seconds, inst) ==
    LET local_seconds == unix_seconds + ct.utc_offset_minutes * 60
        r == RustRem(local_seconds, SECONDS_IN_ONE_DAY)
    IN  IF r >= 0
        THEN {Ok(ClockTime(offset_for(from_millis(r * 1000) % TICKS_IN_ONE_DAY, inst),
                           ct.utc_offset_minutes))}
        ELSE {Panic(ct),
              Ok(ClockTime(offset_for((TwoTo64Mod(TICKS_IN_ONE_DAY) + from_millis(r * 1000))
                                          % TICKS_IN_ONE_DAY, inst),
                           ct.utc_offset_minutes))}

\* (variant: the duration is taken off the offset)
add_assign_backward(ct, duration) ==
    LET ticks == (ct.offset % TICKS_IN_ONE_DAY) + TICKS_IN_ONE_DAY
                    - (duration % TICKS_IN_ONE_DAY)
    IN  ClockTime(ticks % TICKS_IN_ONE_DAY, ct.utc_offset_minutes)
\* impl AddAssign<Duration> for ClockTime
add_assign(ct, duration) ==
    LET ticks == (ct.offset % TICKS_IN_ONE_DAY) + (duration % TICKS_IN_ONE_DAY)
    IN  ClockTime(ticks % TICKS_IN_ONE_DAY, ct.utc_offset_minutes)

\* ClockTime::utc_offset_hours
utc_offset_hours(ct) ==
    IF ct.utc_offset_minutes >= 0
    THEN RustDiv(ct.utc_offset_minutes + 30, 60)
    ELSE RustDiv(ct.utc_offset_minutes - 30, 60)

\* the 27-value wheel of adjust_utc_offset_hours
wrap_hours(new_offset_hours) == RustRem(RustRem(new_offset_hours + 12, 27) + 27, 27) - 12

\* (variant: the wrapped hours are stored without the conversion to minutes)
adjust_utc_offset_hours_stores_hours(ct, hours) ==
    LET current_offset_hours == utc_offset_hours(ct)
        wrapped == wrap_hours(current_offset_hours + hours)
        delta_hours == wrapped - current_offset_hours
    IN  IF delta_hours >= 0
        THEN {Ok(ClockTime(ct.offset + from_secs(delta_hours * 3600), wrapped))}
        ELSE IF ct.offset >= from_secs((-delta_hours) * 3600)
             THEN {Ok(ClockTime(ct.offset - from_secs((-delta_hours) * 3600), wrapped))}
             ELSE {Panic(ct)}

\* ClockTime::adjust_utc_offset_hours.  `self.offset += d` and
\* `self.offset -= d` are Duration's own operators: checked, not reduced
\* modulo one day, and `-=` panics when the result would be negative.
adjust_utc_offset_hours(ct, hours) ==
    LET current_offset_hours == utc_offset_hours(ct)
        new_offset_hours == current_offset_hours + hours
        wrapped == wrap_hours(new_offset_hours)
        delta_hours == wrapped - current_offset_hours
    IN  IF delta_hours >= 0
        THEN {Ok(ClockTime(ct.offset + from_secs(delta_hours * 3600), wrapped * 60))}
        ELSE IF ct.offset >= from_secs((-delta_hours) * 3600)
             THEN {Ok(ClockTime(ct.offset - from_secs((-delta_hours) * 3600), wrapped * 60))}
             ELSE {Panic(ct)}

\* (variant: the hour of the day is returned as it is, 0 to 23)
h_m_s_sleep_duration_24_hour(ct, unit, inst) ==
    LET n == now(ct, inst)
        elapsed_seconds == as_secs(n)
    IN  [hours |-> elapsed_seconds \div 3600,
         minutes |-> (elapsed_seconds % 3600) \div 60,
         seconds |-> elapsed_seconds % 60,
         sleep_duration |-> till_next(n, unit)]
\* ClockTime::h_m_s_sleep_duration
h_m_s_sleep_duration(ct, unit, inst) ==
    LET n == now(ct, inst)
        elapsed_seconds == as_secs(n)
    IN  [hours |-> (((elapsed_seconds \div 3600) + 11) % 12) + 1,
         minutes |-> (elapsed_seconds % 3600) \div 60,
         seconds |-> elapsed_seconds % 60,
         sleep_duration |-> till_next(n, unit)]

(***************************************************************************)
(* ClockState::render                                                      *)
(***************************************************************************)
Digit(d) == <<"0", "1", "2", "3", "4", "5", "6", "7", "8", "9">>[d + 1]
tens_digit(value) == Digit(value \div 10)
\* (variant: the tens of the hours are not blanked)
tens_hours_zero(value) == Digit(value \div 10)
tens_hours(value) == IF value >= 10 THEN "1" ELSE " "
ones_digit(value) == Digit(value % 10)

\* the debug_assert! of tens_digit, tens_hours and ones_digit
tens_digit_assert(value) == value >= 0 /\ value < 60
tens_hours_assert(value) == 1 <= value /\ value <= 12
ones_digit_assert(value) == value >= 0 /\ value < 60

\* the debug assertions render evaluates in state cs
render_asserts(cs, ct, inst) ==
    LET t == h_m_s_sleep_duration(ct, IF cs = MinutesSeconds THEN ONE_SECOND ELSE ONE_MINUTE,
                                  inst)
    IN  IF cs = MinutesSeconds
        THEN /\ tens_digit_assert(t.minutes) /\ ones_digit_assert(t.minutes)
             /\ tens_digit_assert(t.seconds) /\ ones_digit_assert(t.seconds)
        ELSE /\ tens_hours_assert(t.hours) /\ ones_digit_assert(t.hours)
             /\ tens_digit_assert(t.minutes) /\ ones_digit_assert(t.minutes)

render_hours_minutes(ct, inst) ==
    LET t == h_m_s_sleep_duration(ct, ONE_MINUTE, inst)
    IN  [blink_mode |-> "Solid",
         text |-> <<tens_hours(t.hours), ones_digit(t.hours),
                    tens_digit(t.minutes), ones_digit(t.minutes)>>,
         sleep_duration |-> t.sleep_duration]

render_minutes_seconds(ct, inst) ==
    LET t == h_m_s_sleep_duration(ct, ONE_SECOND, inst)
    IN  [blink_mode |-> "Solid",
         text |-> <<tens_digit(t.minutes), ones_digit(t.minutes),
                    tens_digit(t.seconds), ones_digit(t.seconds)>>,
         sleep_duration |-> t.sleep_duration]

\* (variant: the edit face sleeps until the next minute like the HH:MM face)
render_edit_utc_offset_till_minute(ct, inst) ==
    LET t == h_m_s_sleep_duration(ct, ONE_MINUTE, inst)
    IN  [blink_mode |-> "BlinkingAndOn",
         text |-> <<tens_hours(t.hours), ones_digit(t.hours),
                    tens_digit(t.minutes), ones_digit(t.minutes)>>,
         sleep_duration |-> t.sleep_duration]

render_edit_utc_offset(ct, inst) ==
    LET t == h_m_s_sleep_duration(ct, ONE_MINUTE, inst)
    IN  [blink_mode |-> "BlinkingAndOn",
         text |-> <<tens_hours(t.hours), ones_digit(t.hours),
                    tens_digit(t.minutes), ones_digit(t.minutes)>>,
         sleep_duration |-> from_millis(500)]

render(cs, ct, inst) ==
    CASE cs = HoursMinutes -> render_hours_minutes(ct, inst)
      [] cs = MinutesSeconds -> render_minutes_seconds(ct, inst)
      [] cs = EditUtcOffset -> render_edit_utc_offset(ct, inst)

(***************************************************************************)
(* ClockNotice::apply: the outcomes [panic, ct, cs] of applying a notice.  *)
(***************************************************************************)
\* (variant: every notice puts the display state back to HoursMinutes)
WithState_resets_state(outs, cs) ==
    {[panic |-> o.panic, ct |-> o.ct, cs |-> HoursMinutes] : o \in outs}
WithState(outs, cs) == {[panic |-> o.panic, ct |-> o.ct, cs |-> cs] : o \in outs}

apply(notice, ct, cs, inst) ==
    CASE notice.kind = "SetTimeFromUnix" ->
            WithState(set_from_unix(ct, notice.unix, inst), cs)
      [] notice.kind = "AdjustClockTime" ->
            WithState({Ok(add_assign(ct, notice.delta))}, cs)
      [] notice.kind = "SetState" ->
            WithState({Ok(ct)}, notice.state)
      [] notice.kind = "ResetSeconds" ->
            WithState({Ok(add_assign(ct, till_next(now(ct, inst), ONE_MINUTE)))}, cs)
      [] notice.kind = "AdjustUtcOffsetHours" ->
            WithState(adjust_utc_offset_hours(ct, notice.hours), cs)

(***************************************************************************)
(* Initial state: main has spawned device_loop, which has built the        *)
(* default ClockTime and ClockState, rendered once and suspended at its    *)
(* select; the driver loop is about to call execute with the default       *)
(* state.                                                                  *)
(***************************************************************************)
Rendered(cs, ct, inst) ==
    LET r == render(cs, ct, inst)
    IN  /\ blinker' = [blink_mode |-> r.blink_mode, text |-> r.text]
        /\ deadline' = inst + r.sleep_duration

Init ==
    /\ state = HoursMinutes
    /\ pc = "set_state"
    /\ event = [kind |-> "None", unix |-> 0]
    /\ mailbox = <<>>
    /\ \E utc \in DefaultUtcOffsets : clock_time = default(utc)
    /\ clock_state = HoursMinutes
    /\ instant = 0
    /\ LET r == render(clock_state, clock_time, instant)
       IN  /\ blinker = [blink_mode |-> r.blink_mode, text |-> r.text]
           /\ deadline = instant + r.sleep_duration
    /\ panicked = FALSE
    /\ last = NoNotice
    /\ before = clock_time
    /\ synced = NoSync
    /\ sent = <<>>
    /\ applied = <<>>

(***************************************************************************)
(* The monotonic clock advances.                                           *)
(***************************************************************************)
Advance ==
    /\ ~panicked
    /\ \E i \in Instants : i > instant /\ instant' = i
    /\ last' = NoNotice
    /\ before' = clock_time
    /\ synced' = NoSync
    /\ UNCHANGED <<state, pc, event, mailbox, clock_time, clock_state, blinker,
                   deadline, panicked, sent, applied>>

(***************************************************************************)
(* ClockOuterNotifier: Channel<CriticalSectionRawMutex, ClockNotice, 4>.   *)
(***************************************************************************)
\* (variant: the capacity test is off by one)
HasRoom_off_by_one(queue) == Len(queue) <= CAPACITY
\* Channel::send completes only while a slot is free
HasRoom(queue) == Len(queue) < CAPACITY
\* (variant: the newest queued notice is delivered first)
receive_newest(queue) ==
    [notification |-> queue[Len(queue)], rest |-> SubSeq(queue, 1, Len(queue) - 1)]
\* Channel::receive: the oldest queued notice and the remaining queue
receive(queue) == [notification |-> Head(queue), rest |-> Tail(queue)]

(***************************************************************************)
(* device_loop                                                             *)
(***************************************************************************)
\* the unix time now() is comparable with once the notification is applied
SyncedAfter(notification) ==
    CASE notification.kind = "SetTimeFromUnix" -> notification.unix
      [] notification.kind \in {"AdjustUtcOffsetHours", "SetState"} -> synced
      [] OTHER -> NoSync

\* (variant: after apply the task keeps the text and the sleep it had)
Handle_stale(notification) ==
    \E out \in apply(notification, clock_time, clock_state, instant) :
        /\ last' = notification
        /\ before' = clock_time
        /\ synced' = SyncedAfter(notification)
        /\ panicked' = out.panic
        /\ clock_time' = out.ct
        /\ clock_state' = out.cs
        /\ UNCHANGED <<blinker, deadline>>

\* The body of device_loop from a received notification to the next select:
\* apply, then (unless apply panicked) render and write_text.
Handle(notification) ==
    \E out \in apply(notification, clock_time, clock_state, instant) :
        /\ last' = notification
        /\ before' = clock_time
        /\ synced' = SyncedAfter(notification)
        /\ panicked' = out.panic
        /\ clock_time' = out.ct
        /\ clock_state' = out.cs
        /\ IF out.panic
           THEN UNCHANGED <<blinker, deadline>>
           ELSE Rendered(out.cs, out.ct, instant)

\* select(...) resolves to Either::First(notification)
device_loop_receive ==
    /\ ~panicked
    /\ mailbox # <<>>
    /\ mailbox' = receive(mailbox).rest
    /\ applied' = Append(applied, receive(mailbox).notification)
    /\ Handle(receive(mailbox).notification)
    /\ UNCHANGED <<state, pc, event, instant, sent>>

\* select(...) resolves to Either::Second: the sleep elapsed.  The receive
\* future is polled first, so the timer wins only on an empty mailbox.
device_loop_timer ==
    /\ ~panicked
    /\ mailbox = <<>>
    /\ instant >= deadline
    /\ Rendered(clock_state, clock_time, instant)
    /\ UNCHANGED <<state, pc, event, mailbox, clock_time, clock_state, instant,
                   panicked, last, before, synced, sent, applied>>

(***************************************************************************)
(* Clock handle: every method is `self.0.send(notice).await` on the        *)
(* bounded Channel.  A send completes only while the channel has a free    *)
(* slot; otherwise the sender stays suspended at the await.                *)
(***************************************************************************)

Send(notice) ==
    /\ ~panicked
    /\ Len(sent) < MaxSent
    /\ HasRoom(mailbox)
    /\ mailbox' = Append(mailbox, notice)
    /\ sent' = Append(sent, notice)

(***************************************************************************)
(* ClockState::execute, one action per await of the driver loop.           *)
(***************************************************************************)
Presses == {"Short", "Long"}
ButtonEvents == {[kind |-> p, unix |-> 0] : p \in Presses}
TimeSyncEvents == {[kind |-> "Success", unix |-> t] : t \in SyncTimes}
                      \cup {[kind |-> "Failed", unix |-> 0]}

\* (variant: the two press arms are swapped)
hours_minutes_press_swapped(press) ==
    IF press = "Short" THEN EditUtcOffset ELSE MinutesSeconds
\* match arms of execute_hours_minutes for Either::First(press)
hours_minutes_press(press) == IF press = "Short" THEN MinutesSeconds ELSE EditUtcOffset
\* match arms of execute_minutes_seconds for Either::First(press)
minutes_seconds_press(press) == IF press = "Short" THEN HoursMinutes ELSE EditUtcOffset
\* notices the Short arm of execute_edit_utc_offset sends, in order
edit_short_notices(self) == <<AdjustUtcOffsetHours(1), SetState(self)>>
\* (variant: a failure is treated like a success)
handle_time_sync_event_no_failure_arm(ev) == <<SetTimeFromUnix(ev.unix)>>
\* (variant: the timestamp of the event is not forwarded)
handle_time_sync_event_drops_timestamp(ev) ==
    IF ev.kind = "Success" THEN <<SetTimeFromUnix(0)>> ELSE <<>>
\* notices handle_time_sync_event sends for an event
handle_time_sync_event(ev) ==
    IF ev.kind = "Success" THEN <<SetTimeFromUnix(ev.unix)>> ELSE <<>>

\* (variant: execute goes to its select without announcing the state)
execute_set_state_not_sent ==
    /\ ~panicked
    /\ pc = "set_state"
    /\ pc' = "select"
    /\ UNCHANGED <<state, event, mailbox, clock_time, clock_state, blinker, deadline,
                   instant, panicked, last, before, synced, sent, applied>>
\* clock.set_state(self).await, the first statement of each execute_*
execute_set_state ==
    /\ pc = "set_state"
    /\ Send(SetState(state))
    /\ pc' = "select"
    /\ UNCHANGED <<state, event, clock_time, clock_state, blinker, deadline,
                   instant, panicked, last, before, synced, applied>>

\* Either::First(press) in the execute_* of a clock face
face_press(self, press) ==
    IF self = HoursMinutes THEN hours_minutes_press(press) ELSE minutes_seconds_press(press)

\* the select of execute_hours_minutes / execute_minutes_seconds resolves
ExecuteFace(self) ==
    /\ ~panicked
    /\ state = self
    /\ pc = "select"
    /\ \E ev \in ButtonEvents \cup TimeSyncEvents :
          /\ event' = ev
          /\ IF ev.kind \in Presses
             THEN state' = face_press(self, ev.kind) /\ pc' = "set_state"
             ELSE /\ state' = self
                  /\ pc' = IF handle_time_sync_event(ev) = <<>>
                           THEN "set_state" ELSE "set_time"
    /\ UNCHANGED <<mailbox, clock_time, clock_state, blinker, deadline, instant,
                   panicked, last, before, synced, sent, applied>>

execute_hours_minutes == ExecuteFace(HoursMinutes)
execute_minutes_seconds == ExecuteFace(MinutesSeconds)

\* clock.set_time_from_unix(unix_seconds).await in handle_time_sync_event;
\* execute then returns self
time_sync_set_time ==
    /\ pc = "set_time"
    /\ Send(handle_time_sync_event(event)[1])
    /\ pc' = "set_state"
    /\ UNCHANGED <<state, event, clock_time, clock_state, blinker, deadline,
                   instant, panicked, last, before, synced, applied>>

\* (variant: the edit state selects on the time sync like the two faces)
execute_edit_utc_offset_with_time_sync ==
    /\ ~panicked
    /\ state = EditUtcOffset
    /\ pc = "select"
    /\ \E ev \in ButtonEvents \cup TimeSyncEvents :
          /\ event' = ev
          /\ IF ev.kind = "Short"
             THEN state' = EditUtcOffset /\ pc' = "adjust"
             ELSE IF ev.kind = "Long"
                  THEN state' = HoursMinutes /\ pc' = "set_state"
                  ELSE /\ state' = EditUtcOffset
                       /\ pc' = IF handle_time_sync_event(ev) = <<>>
                                THEN "set_state" ELSE "set_time"
    /\ UNCHANGED <<mailbox, clock_time, clock_state, blinker, deadline, instant,
                   panicked, last, before, synced, sent, applied>>
\* button.press_duration().await of execute_edit_utc_offset resolves
execute_edit_utc_offset ==
    /\ ~panicked
    /\ state = EditUtcOffset
    /\ pc = "select"
    /\ \E ev \in ButtonEvents :
          /\ event' = ev
          /\ IF ev.kind = "Short"
             THEN state' = EditUtcOffset /\ pc' = "adjust"
             ELSE state' = HoursMinutes /\ pc' = "set_state"
    /\ UNCHANGED <<mailbox, clock_time, clock_state, blinker, deadline, instant,
                   panicked, last, before, synced, sent, applied>>

\* clock.adjust_utc_offset_hours(1).await
edit_adjust ==
    /\ pc = "adjust"
    /\ Send(edit_short_notices(state)[1])
    /\ pc' = "reannounce"
    /\ UNCHANGED <<state, event, clock_time, clock_state, blinker, deadline,
                   instant, panicked, last, before, synced, applied>>

\* clock.set_state(self).await after the adjustment; execute returns self
edit_set_state ==
    /\ pc = "reannounce"
    /\ Send(edit_short_notices(state)[2])
    /\ pc' = "set_state"
    /\ UNCHANGED <<state, event, clock_time, clock_state, blinker, deadline,
                   instant, panicked, last, before, synced, applied>>

Next ==
    \/ execute_set_state
    \/ execute_hours_minutes
    \/ execute_minutes_seconds
    \/ execute_edit_utc_offset
    \/ time_sync_set_time
    \/ edit_adjust
    \/ edit_set_state
    \/ device_loop_receive
    \/ device_loop_timer
    \/ Advance

Spec == Init /\ [][Next]_vars

\* The executor polls every task that is ready: a Clock task with a notice to
\* receive runs, and so does a driver whose send has a free slot.  Button
\* presses, time-sync events and the passing of time are the environment's.
DriverSend == execute_set_state \/ time_sync_set_time \/ edit_adjust \/ edit_set_state
SpecFair == Spec /\ WF_vars(device_loop_receive) /\ WF_vars(DriverSend)

(***************************************************************************)
(* SpecTime: a user of the Clock handle may have any ClockNotice applied   *)
(* (Clock::set_state, set_time_from_unix, adjust_offset, reset_seconds,    *)
(* adjust_utc_offset_hours), at any instant.                               *)
(***************************************************************************)
Applies(notice) ==
    /\ ~panicked
    /\ Len(applied) < MaxApplied
    /\ applied' = Append(applied, notice)
    /\ Handle(notice)
    /\ UNCHANGED <<state, pc, event, mailbox, instant, sent>>

apply_set_time_from_unix == \E t \in UnixTimes : Applies(SetTimeFromUnix(t))
apply_adjust_clock_time == \E d \in Deltas : Applies(AdjustClockTime(d))
apply_reset_seconds == Applies(ResetSeconds)
apply_adjust_utc_offset_hours == \E h \in HourSteps : Applies(AdjustUtcOffsetHours(h))

NextTime ==
    \/ apply_set_time_from_unix
    \/ apply_adjust_clock_time
    \/ apply_reset_seconds
    \/ apply_adjust_utc_offset_hours
    \/ Advance

SpecTime == Init /\ [][NextTime]_vars

(***************************************************************************)
(* Properties.                                                             *)
(***************************************************************************)
\* the awaits at which the driver is inside a Clock send
SendPcs == {"set_state", "set_time", "adjust", "reannounce"}
\* the driver's select / press_duration await resolves in this step
DriverResolved == pc = "select" /\ pc' # "select"
\* the Clock task receives a notice of this kind and hands it to apply
TaskApplies(kind) ==
    /\ Len(applied') = Len(applied) + 1
    /\ mailbox # <<>>
    /\ Head(mailbox).kind = kind

\* C1: the notices handed to ClockNotice::apply, followed by the notices
\* still queued, are exactly the notices sent, in send order: nothing is
\* dropped, duplicated, overwritten or reordered under any interleaving.
C1_Fifo == sent = applied \o mailbox

C1_Witness ==
    /\ Len(applied) >= 2
    /\ Len(mailbox) >= 2
    /\ mailbox[1] # mailbox[2]
    /\ applied[1] # applied[2]

\* C2: the mailbox never holds more than 4 notices; a driver suspended in a
\* send can complete it exactly when fewer than 4 are queued; and while 4
\* are queued no step completes a send, so the blocked send completes only
\* after the Clock task has received a notice.
C2_Backpressure ==
    /\ [](Len(mailbox) <= CAPACITY)
    /\ []((pc \in SendPcs /\ ~panicked /\ Len(sent) < MaxSent)
            => ((ENABLED DriverSend) <=> Len(mailbox) < CAPACITY))
    /\ [][Len(mailbox) = CAPACITY => sent' = sent /\ Len(mailbox') <= Len(mailbox)]_vars

\* the fifth send completed, after exactly one receive, and the mailbox is
\* full again
C2_Witness ==
    /\ Len(sent) = 5
    /\ Len(applied) = 1
    /\ Len(mailbox) = CAPACITY
    /\ pc \in SendPcs

\* C3: a button press that resolves the select in HoursMinutes or
\* MinutesSeconds makes execute return: from HoursMinutes, MinutesSeconds on
\* Short and EditUtcOffset on Long; from MinutesSeconds, HoursMinutes on
\* Short and EditUtcOffset on Long; nothing else.
C3_FaceTransitions ==
    [][(DriverResolved /\ event'.kind \in Presses /\ state # EditUtcOffset)
         => /\ pc' = "set_state"
            /\ sent' = sent
            /\ state' = CASE state = HoursMinutes /\ event'.kind = "Short" -> MinutesSeconds
                          [] state = HoursMinutes /\ event'.kind = "Long" -> EditUtcOffset
                          [] state = MinutesSeconds /\ event'.kind = "Short" -> HoursMinutes
                          [] state = MinutesSeconds /\ event'.kind = "Long" -> EditUtcOffset]_vars

\* HoursMinutes -Short-> MinutesSeconds -Short-> HoursMinutes -Long-> EditUtcOffset
C3_Witness ==
    /\ sent = <<SetState(HoursMinutes), SetState(MinutesSeconds), SetState(HoursMinutes)>>
    /\ state = EditUtcOffset
    /\ event.kind = "Long"
    /\ pc = "set_state"

\* what execute_edit_utc_offset does at each of its awaits: Long returns
\* HoursMinutes; Short sends AdjustUtcOffsetHours(1), then SetState(self),
\* and returns EditUtcOffset
EditExecuteSteps ==
    /\ (DriverResolved /\ state = EditUtcOffset /\ event'.kind = "Long")
          => (state' = HoursMinutes /\ pc' = "set_state" /\ sent' = sent)
    /\ (DriverResolved /\ state = EditUtcOffset /\ event'.kind = "Short")
          => (state' = EditUtcOffset /\ pc' = "adjust" /\ sent' = sent)
    /\ (pc = "adjust" /\ pc' # "adjust")
          => /\ sent' = Append(sent, AdjustUtcOffsetHours(1))
             /\ state' = EditUtcOffset /\ pc' = "reannounce"
    /\ (pc = "reannounce" /\ pc' # "reannounce")
          => /\ sent' = Append(sent, SetState(EditUtcOffset))
             /\ state' = EditUtcOffset /\ pc' = "set_state"

\* C4 (as claimed): in EditUtcOffset a long press returns HoursMinutes, a
\* short press returns EditUtcOffset, and when the Clock task applies the
\* adjustment of that press the stored UTC offset becomes exactly one hour
\* greater, whatever it was.
C4_OneHourGreaterAlways ==
    [][/\ EditExecuteSteps
       /\ TaskApplies("AdjustUtcOffsetHours")
             => clock_time'.utc_offset_minutes = clock_time.utc_offset_minutes + 60]_vars

\* whole hours from -12 to +13
BelowTopOfWheel(ct) ==
    /\ ct.utc_offset_minutes % 60 = 0
    /\ ct.utc_offset_minutes >= -720
    /\ ct.utc_offset_minutes <= 780

\* C4 (amended): in EditUtcOffset a long press returns HoursMinutes, a short
\* press returns EditUtcOffset, and when the Clock task applies the
\* adjustment of that press to a stored UTC offset of a whole number of hours
\* from -12 to +13, apply completes and the stored UTC offset becomes exactly
\* one hour greater.
C4_OneHourGreaterBelowTop ==
    [][/\ EditExecuteSteps
       /\ (TaskApplies("AdjustUtcOffsetHours") /\ BelowTopOfWheel(clock_time))
             => /\ ~panicked'
                /\ clock_time'.utc_offset_minutes = clock_time.utc_offset_minutes + 60]_vars

\* a short press in EditUtcOffset whose two notices have been applied,
\* starting from a UTC offset of 0
C4_Witness ==
    /\ state = EditUtcOffset
    /\ event.kind = "Short"
    /\ Len(applied) = 4
    /\ applied[3] = AdjustUtcOffsetHours(1)
    /\ applied[4] = SetState(EditUtcOffset)
    /\ mailbox = <<>>
    /\ clock_time.utc_offset_minutes = 60

\* C5: a time-sync failure that resolves the select in HoursMinutes or
\* MinutesSeconds makes execute return the state it was called in; the only
\* notice of that call is the initial SetState of that state, and the step
\* leaves the mailbox and the Clock task's ClockTime and state unchanged.
C5_SyncFailure ==
    /\ [](pc = "select" => (sent # <<>> /\ sent[Len(sent)] = SetState(state)))
    /\ [][(DriverResolved /\ event'.kind = "Failed")
            => /\ state \in {HoursMinutes, MinutesSeconds}
               /\ state' = state
               /\ pc' = "set_state"
               /\ sent' = sent
               /\ mailbox' = mailbox
               /\ clock_time' = clock_time
               /\ clock_state' = clock_state]_vars

\* a failure received in MinutesSeconds, everything sent so far applied
C5_Witness ==
    /\ event.kind = "Failed"
    /\ state = MinutesSeconds
    /\ pc = "set_state"
    /\ applied = <<SetState(HoursMinutes), SetState(MinutesSeconds)>>
    /\ sent = applied
    /\ clock_state = MinutesSeconds

\* C6: a time-sync success carrying t that resolves the select in
\* HoursMinutes or MinutesSeconds makes execute send exactly one notice,
\* SetTimeFromUnix(t), and return the same state; when the Clock task
\* receives a SetTimeFromUnix(t) it applies set_from_unix(t) to its ClockTime
\* and leaves its display state unchanged.
C6_SyncSuccess ==
    [][/\ (DriverResolved /\ event'.kind = "Success")
             => /\ state \in {HoursMinutes, MinutesSeconds}
                /\ event'.unix \in SyncTimes
                /\ state' = state /\ pc' = "set_time" /\ sent' = sent
       /\ (pc = "set_time" /\ pc' # "set_time")
             => /\ sent' = Append(sent, SetTimeFromUnix(event.unix))
                /\ mailbox' = Append(mailbox, SetTimeFromUnix(event.unix))
                /\ state' = state /\ pc' = "set_state"
       /\ TaskApplies("SetTimeFromUnix")
             => /\ clock_state' = clock_state
                /\ \E out \in set_from_unix(clock_time, Head(mailbox).unix, instant) :
                      clock_time' = out.ct /\ panicked' = out.panic]_vars

\* a success received in MinutesSeconds whose notice has been applied
C6_Witness ==
    /\ event.kind = "Success"
    /\ state = MinutesSeconds
    /\ last = SetTimeFromUnix(event.unix)
    /\ Len(applied) = 3
    /\ mailbox = <<>>
    /\ clock_state = MinutesSeconds
    /\ ~panicked
    /\ now(clock_time, instant)
          = from_secs((event.unix + 60 * clock_time.utc_offset_minutes) % SECONDS_IN_ONE_DAY)

\* C7 (as claimed): ClockNotice::apply never panics on a notice the driver
\* sends, so the Clock task keeps running.
C7_ApplyInfallible == ~panicked

\* C8 (as claimed): the stored offset is always reduced modulo one day.
C8_OffsetReduced == clock_time.offset >= 0 /\ clock_time.offset < TICKS_IN_ONE_DAY

\* C9: for the stored offset and every monotonic instant, now() equals
\* (monotonic ticks + offset) mod ticks per day and lies in [0, ticks per day).
C9_NowInDay ==
    \A i \in Instants \cup {instant} :
        /\ now(clock_time, i) = (i + clock_time.offset) % TICKS_IN_ONE_DAY
        /\ now(clock_time, i) >= 0
        /\ now(clock_time, i) < TICKS_IN_ONE_DAY

\* after a UTC-offset adjustment, at an instant whose sum with the offset
\* passes midnight
C9_Witness ==
    /\ last.kind = "AdjustUtcOffsetHours"
    /\ ~panicked
    /\ instant > 0
    /\ (instant % TICKS_IN_ONE_DAY) + (clock_time.offset % TICKS_IN_ONE_DAY) >= TICKS_IN_ONE_DAY

\* C10 (as claimed): now() read at the instant of set_from_unix(t) is the
\* local time of day ((t + 60 * utc_offset_minutes) mod 86400) seconds, the
\* modulo taken non-negative.
C10_SetFromUnixExact ==
    last.kind = "SetTimeFromUnix"
       => /\ ~panicked
          /\ now(clock_time, instant)
                = from_secs((last.unix + 60 * clock_time.utc_offset_minutes)
                               % SECONDS_IN_ONE_DAY)

\* this step hands the notice to ClockNotice::apply
Applied(notice) == applied' = Append(applied, notice)

\* C11 (as claimed): from every ClockTime, adjust_utc_offset_hours(+1)
\* followed at the same instant by adjust_utc_offset_hours(-1) completes and
\* returns utc_offset_minutes and now() to the values they had before the
\* first call.
C11_InverseCalls ==
    /\ [](last = AdjustUtcOffsetHours(1) => ~panicked)
    /\ [][(last = AdjustUtcOffsetHours(1) /\ Applied(AdjustUtcOffsetHours(-1)))
            => /\ ~panicked'
               /\ clock_time'.utc_offset_minutes = before.utc_offset_minutes
               /\ now(clock_time', instant) = now(before, instant)]_vars

\* C12 (as claimed): adjust_utc_offset_hours wraps on the 27-value wheel:
\* from +14 hours, +1 yields -12 hours; and every call completes with now()
\* equal to (now() before + one hour * (new offset hours - old offset hours))
\* modulo one day.
C12_WheelShift ==
    [][\A h \in HourSteps :
          Applied(AdjustUtcOffsetHours(h))
             => /\ ~panicked'
                /\ (utc_offset_hours(clock_time) = 14 /\ h = 1)
                      => utc_offset_hours(clock_time') = -12
                /\ now(clock_time', instant)
                      = (now(clock_time, instant)
                           + ONE_HOUR * (utc_offset_hours(clock_time')
                                            - utc_offset_hours(clock_time))
                           + 2 * TICKS_IN_ONE_DAY) % TICKS_IN_ONE_DAY]_vars

\* C13: for every duration d and unit u > 0, till_next(d, u) is positive, at
\* most u, and d + till_next(d, u) is a multiple of u; a d that is already a
\* multiple of u gets the full unit, never zero.
C13_TillNext ==
    \A u \in Units :
        \A d \in {now(clock_time, instant), clock_time.offset, instant, deadline} :
            /\ till_next(d, u) > 0
            /\ till_next(d, u) <= u
            /\ (d + till_next(d, u)) % u = 0
            /\ (d % u = 0) => till_next(d, u) = u

\* ResetSeconds applied twice in a row off a minute boundary: the second
\* till_next started on the boundary the first one reached, and the render
\* that followed sleeps a full minute
C13_Witness ==
    /\ Len(applied) >= 2
    /\ applied[Len(applied) - 1] = ResetSeconds
    /\ last = ResetSeconds
    /\ instant = 1500
    /\ ~panicked
    /\ now(before, instant) % ONE_MINUTE = 0
    /\ now(clock_time, instant) = (now(before, instant) + ONE_MINUTE) % TICKS_IN_ONE_DAY
    /\ deadline = instant + ONE_MINUTE

\* the hour of a time of day on a 12-hour dial: 12, 1, 2, .. 11
TwelveHour(time) ==
    LET hour_of_day == time \div ONE_HOUR
    IN  IF hour_of_day % 12 = 0 THEN 12 ELSE hour_of_day % 12

\* C14: for the stored ClockTime and every monotonic instant,
\* h_m_s_sleep_duration returns the 12-hour hour of now() in 1..12, minutes in
\* 0..59 and seconds in 0..59, and no debug assertion of tens_hours,
\* tens_digit or ones_digit fails in the render of any state.
C14_HmsInRange ==
    \A i \in Instants \cup {instant} :
        /\ \A u \in {ONE_SECOND, ONE_MINUTE} :
              LET t == h_m_s_sleep_duration(clock_time, u, i)
              IN  /\ t.hours \in 1..12
                  /\ t.hours = TwelveHour(now(clock_time, i))
                  /\ t.minutes \in 0..59
                  /\ t.seconds \in 0..59
        /\ \A cs \in ClockStates : render_asserts(cs, clock_time, i)

\* a render in the hour after midnight, shown as 12
C14_Witness ==
    /\ last # NoNotice
    /\ ~panicked
    /\ now(clock_time, instant) < ONE_HOUR
    /\ h_m_s_sleep_duration(clock_time, ONE_MINUTE, instant).hours = 12
    /\ blinker.text[1] = "1"
    /\ blinker.text[2] = "2"

\* the characters of a time of day on the HH:MM face
HoursMinutesText(time) ==
    LET h == TwelveHour(time)
        m == (time \div ONE_MINUTE) % 60
    IN  <<IF h < 10 THEN " " ELSE Digit(h \div 10), Digit(h % 10),
          Digit(m \div 10), Digit(m % 10)>>

\* C15: for every time of day, render in HoursMinutes returns Solid and the
\* characters [tens of the 12-hour hours, ones of the hours, tens of the
\* minutes, ones of the minutes], the first one a space (never '0') exactly
\* when the hours are below 10; at 01:23:45 it returns [' ','1','2','3'],
\* Solid and a sleep of 15 seconds; and that is what the Clock task forwards
\* when it renders in HoursMinutes.
C15_RenderHoursMinutes ==
    /\ \A i \in Instants \cup {instant} :
          LET r == render(HoursMinutes, clock_time, i)
              n == now(clock_time, i)
          IN  /\ r.blink_mode = "Solid"
              /\ r.text = HoursMinutesText(n)
              /\ r.text[1] # "0"
              /\ (r.text[1] = " ") <=> (TwelveHour(n) < 10)
              /\ (n = from_secs(3600 + 23 * 60 + 45))
                    => /\ r.text = <<" ", "1", "2", "3">>
                       /\ r.sleep_duration = from_secs(15)
    /\ (last # NoNotice /\ ~panicked /\ clock_state = HoursMinutes)
          => /\ blinker = [blink_mode |-> "Solid",
                           text |-> HoursMinutesText(now(clock_time, instant))]
             /\ deadline = instant + till_next(now(clock_time, instant), ONE_MINUTE)

\* the Clock task has just set the time to 01:23:45 and rendered it
C15_Witness ==
    /\ last.kind = "SetTimeFromUnix"
    /\ ~panicked
    /\ clock_state = HoursMinutes
    /\ now(clock_time, instant) = from_secs(3600 + 23 * 60 + 45)
    /\ blinker = [blink_mode |-> "Solid", text |-> <<" ", "1", "2", "3">>]
    /\ deadline = instant + from_secs(15)

\* the time from a time of day to the next multiple of unit: the one t with
\* 0 < t <= unit and time + t a multiple of unit
IsTimeToBoundary(t, time, unit) == t > 0 /\ t <= unit /\ (time + t) % unit = 0

\* C16: the sleep render returns is, in HoursMinutes, the time from now() to
\* the next whole minute; in MinutesSeconds, the time to the next whole
\* second (both positive and at most one unit); in EditUtcOffset, 500 ms with
\* blink mode BlinkingAndOn whatever the time; and that is the sleep the Clock
\* task arms when it renders.
C16_SleepByState ==
    /\ \A i \in Instants \cup {instant} :
          LET n == now(clock_time, i)
          IN  /\ IsTimeToBoundary(render(HoursMinutes, clock_time, i).sleep_duration,
                                  n, ONE_MINUTE)
              /\ IsTimeToBoundary(render(MinutesSeconds, clock_time, i).sleep_duration,
                                  n, ONE_SECOND)
              /\ render(EditUtcOffset, clock_time, i).sleep_duration = from_millis(500)
              /\ render(EditUtcOffset, clock_time, i).blink_mode = "BlinkingAndOn"
    /\ (last # NoNotice /\ ~panicked)
          => LET n == now(clock_time, instant)
             IN  CASE clock_state = HoursMinutes
                        -> IsTimeToBoundary(deadline - instant, n, ONE_MINUTE)
                   [] clock_state = MinutesSeconds
                        -> IsTimeToBoundary(deadline - instant, n, ONE_SECOND)
                   [] clock_state = EditUtcOffset
                        -> /\ deadline - instant = from_millis(500)
                           /\ blinker.blink_mode = "BlinkingAndOn"

\* the Clock task entered EditUtcOffset 1.5 s into a minute and armed 500 ms
C16_Witness ==
    /\ last = SetState(EditUtcOffset)
    /\ clock_state = EditUtcOffset
    /\ ~panicked
    /\ now(clock_time, instant) % ONE_MINUTE = from_millis(1500)
    /\ deadline = instant + from_millis(500)
    /\ blinker.blink_mode = "BlinkingAndOn"

\* C17: an iteration of execute starts by sending SetState(state): the send
\* is the only thing the driver does before its select, it enqueues exactly
\* that notice, and whenever the driver waits on a button or time-sync event
\* the notice it sent last is SetState of the state it waits in.
C17_SetStateFirst ==
    /\ [][(pc = "set_state" /\ pc' # "set_state")
            => /\ pc' = "select"
               /\ state' = state
               /\ sent' = Append(sent, SetState(state))
               /\ mailbox' = Append(mailbox, SetState(state))]_vars
    /\ [][(pc = "set_state" /\ pc' = "set_state") => (sent' = sent /\ state' = state)]_vars
    /\ [][(pc # "select" /\ pc' = "select") => pc = "set_state"]_vars
    /\ [](pc = "select" => (sent # <<>> /\ sent[Len(sent)] = SetState(state)))

\* the driver has gone through HoursMinutes and MinutesSeconds and waits in
\* EditUtcOffset, its SetState still queued
C17_Witness ==
    /\ sent = <<SetState(HoursMinutes), SetState(MinutesSeconds), SetState(EditUtcOffset)>>
    /\ pc = "select"
    /\ state = EditUtcOffset
    /\ mailbox # <<>>
    /\ mailbox[Len(mailbox)] = SetState(EditUtcOffset)

\* C18 (as claimed): a short press in MinutesSeconds, which switches the
\* driver to HoursMinutes, has a ResetSeconds sent to the Clock task: once the
\* driver waits in HoursMinutes after that press, a ResetSeconds is among the
\* notices sent.
C18_ResetSecondsOnReturn ==
    (state = HoursMinutes /\ pc = "select" /\ event.kind = "Short")
       => \E i \in 1..Len(sent) : sent[i] = ResetSeconds

\* C19: applying ResetSeconds adds till_next(now(), one minute) to the
\* offset, modulo one day: at the same instant now() is then a multiple of
\* one minute and has moved forward, modulo one day, by more than 0 and at
\* most one minute, a full minute when it was already on a boundary; nothing
\* else changes.
C19_ResetSeconds ==
    [][Applied(ResetSeconds)
         => LET n == now(clock_time, instant)
                moved == (now(clock_time', instant) - n + TICKS_IN_ONE_DAY)
                            % TICKS_IN_ONE_DAY
            IN  /\ ~panicked'
                /\ clock_time'.offset
                      = (clock_time.offset + till_next(n, ONE_MINUTE)) % TICKS_IN_ONE_DAY
                /\ clock_time'.utc_offset_minutes = clock_time.utc_offset_minutes
                /\ clock_state' = clock_state
                /\ now(clock_time', instant) % ONE_MINUTE = 0
                /\ moved = till_next(n, ONE_MINUTE)
                /\ moved > 0
                /\ moved <= ONE_MINUTE
                /\ (n % ONE_MINUTE = 0) => moved = ONE_MINUTE]_vars

\* ResetSeconds applied at 23:59:30: 30 s forward, across midnight to 00:00:00
C19_Witness ==
    /\ last = ResetSeconds
    /\ ~panicked
    /\ now(before, instant) = TICKS_IN_ONE_DAY - from_secs(30)
    /\ now(clock_time, instant) = 0
    /\ clock_time.offset < before.offset

\* the text and the sleep are those of a render of (ct, cs) at instant inst
RenderedFrom(cs, ct, inst) ==
    LET r == render(cs, ct, inst)
    IN  /\ blinker = [blink_mode |-> r.blink_mode, text |-> r.text]
        /\ deadline = inst + r.sleep_duration

\* C20: a queued notice is received whatever is left of the sleep; the step
\* that receives it applies it and, unless apply panicked, renders the
\* mutated (time, state) at that instant and arms the sleep from it; so
\* whenever the task is suspended at its select, the text forwarded to the
\* blinker and the pending sleep are those of a render of the task's current
\* (time, state).
C20_FreshRender ==
    /\ []((~panicked /\ mailbox # <<>>) => ENABLED device_loop_receive)
    /\ [][(applied' # applied /\ ~panicked')
            => LET r == render(clock_state', clock_time', instant)
               IN  /\ blinker' = [blink_mode |-> r.blink_mode, text |-> r.text]
                   /\ deadline' = instant + r.sleep_duration]_vars
    /\ [](~panicked
            => \E i \in Instants : i <= instant /\ RenderedFrom(clock_state, clock_time, i))

\* SetState(MinutesSeconds) received 1.5 s into a sleep of one minute: the
\* text is the MM:SS one and the sleep ends at the next second
C20_Witness ==
    /\ last = SetState(MinutesSeconds)
    /\ clock_state = MinutesSeconds
    /\ ~panicked
    /\ instant = from_millis(1500)
    /\ blinker.text = <<"0", "0", "0", "1">>
    /\ deadline = from_millis(2000)

\* C21 (as claimed): under fair scheduling every notice sent is eventually
\* handed to apply by a Clock task that keeps running, and every send the
\* driver has started eventually completes.
C21_NoOperationBlocksForever ==
    /\ \A n \in 1..MaxSent : (Len(sent) >= n) ~> (Len(applied) >= n /\ ~panicked)
    /\ \A n \in 0..(MaxSent - 1) : (pc \in SendPcs /\ Len(sent) = n) ~> (Len(sent) > n)

\* C22: in EditUtcOffset only a button press resolves the driver's await:
\* no time-sync event does, the state changes only on a long press, and no
\* SetTimeFromUnix is sent while the driver is in that state.
C22_EditIgnoresTimeSync ==
    [][state = EditUtcOffset
         => /\ DriverResolved => event'.kind \in Presses
            /\ (state' # state) => (DriverResolved /\ event'.kind = "Long")
            /\ pc' # "set_time"
            /\ (sent' # sent) => sent'[Len(sent')].kind # "SetTimeFromUnix"]_vars

\* after a time sync in HoursMinutes the driver went to EditUtcOffset, where
\* a short press resolved its await
C22_Witness ==
    /\ state = EditUtcOffset
    /\ pc = "reannounce"
    /\ event.kind = "Short"
    /\ \E i \in 1..Len(sent) : sent[i].kind = "SetTimeFromUnix"
    /\ sent[Len(sent)] = AdjustUtcOffsetHours(1)

\* C23 (as claimed): the Clock task's utc_offset_minutes is always a whole
\* number of hours from -720 to +840, whatever the compile-time default and
\* whatever notices were applied.
C23_UtcOffsetWholeHours ==
    /\ clock_time.utc_offset_minutes % 60 = 0
    /\ clock_time.utc_offset_minutes >= -720
    /\ clock_time.utc_offset_minutes <= 840

\* every notice of the model's input sets
AllNotices ==
    {SetState(s) : s \in ClockStates}
       \cup {SetTimeFromUnix(t) : t \in UnixTimes \cup SyncTimes}
       \cup {AdjustClockTime(d) : d \in Deltas}
       \cup {ResetSeconds}
       \cup {AdjustUtcOffsetHours(h) : h \in HourSteps}

\* outcome out of applying notice to (ct, cs) touches only what the variant names
FrameOf(notice, ct, cs, out) ==
    CASE notice.kind = "SetState" -> out.ct = ct /\ out.cs = notice.state
      [] notice.kind \in {"SetTimeFromUnix", "AdjustClockTime", "ResetSeconds"}
            -> /\ out.cs = cs
               /\ out.ct.utc_offset_minutes = ct.utc_offset_minutes
      [] notice.kind = "AdjustUtcOffsetHours" -> out.cs = cs

\* C24: applying a notice changes only what its variant names: SetState the
\* display state and nothing of the ClockTime; SetTimeFromUnix,
\* AdjustClockTime and ResetSeconds neither the display state nor
\* utc_offset_minutes; AdjustUtcOffsetHours not the display state.  The Clock
\* task's (ClockTime, ClockState) changes in no step other than one that
\* hands the head of the mailbox to apply, and then to an outcome of apply.
C24_Frame ==
    /\ [](\A notice \in AllNotices :
             \A out \in apply(notice, clock_time, clock_state, instant) :
                 FrameOf(notice, clock_time, clock_state, out))
    /\ [][(applied' = applied)
            => (clock_time' = clock_time /\ clock_state' = clock_state)]_vars
    /\ [][(applied' # applied)
            => /\ mailbox # <<>>
               /\ applied' = Append(applied, Head(mailbox))
               /\ \E out \in apply(Head(mailbox), clock_time, clock_state, instant) :
                     /\ clock_time' = out.ct
                     /\ clock_state' = out.cs
                     /\ FrameOf(Head(mailbox), clock_time, clock_state, out)]_vars

\* SetTimeFromUnix applied in MinutesSeconds moved the offset and nothing else
C24_Witness ==
    /\ last.kind = "SetTimeFromUnix"
    /\ ~panicked
    /\ clock_state = MinutesSeconds
    /\ clock_time.offset # before.offset
    /\ clock_time.utc_offset_minutes = before.utc_offset_minutes
    /\ state = MinutesSeconds

\* C25: the driver and the Clock task both start in HoursMinutes, and
\* whenever the mailbox is empty while the driver waits for a button or
\* time-sync event in execute for its state, the Clock task's clock_state is
\* that state.
C25_StateMirrored ==
    /\ (sent = <<>> /\ applied = <<>>)
          => (state = HoursMinutes /\ clock_state = HoursMinutes)
    /\ (mailbox = <<>> /\ pc = "select") => clock_state = state

\* the driver waits in EditUtcOffset after a short press there, and the Clock
\* task has applied everything
C25_Witness ==
    /\ mailbox = <<>>
    /\ pc = "select"
    /\ state = EditUtcOffset
    /\ clock_state = EditUtcOffset
    /\ event.kind = "Short"
    /\ ~panicked

\* C26 (as claimed): when set_from_unix(t) has been followed, at the same
\* instant, by adjust_utc_offset_hours calls only, every call has completed
\* and now() is the local time of day of t under the UTC offset now stored,
\* which is also what set_from_unix(t) would give if called now.
C26_SyncThenEdit ==
    (synced # NoSync /\ last.kind = "AdjustUtcOffsetHours")
       => /\ ~panicked
          /\ now(clock_time, instant)
                = from_secs((synced + 60 * clock_time.utc_offset_minutes)
                               % SECONDS_IN_ONE_DAY)
          /\ \A out \in set_from_unix(clock_time, synced, instant) :
                ~out.panic /\ now(out.ct, instant) = now(clock_time, instant)

====
